---- MODULE Spec2Model ----
(***************************************************************************)
(* Model of the benchmark aggregator of solana-grpc-showcase:              *)
(* BenchmarkService.RunBenchmark and its six sampler goroutines            *)
(* (server/services/benchmark_service.go).                                 *)
(*                                                                         *)
(* The aggregator launches one goroutine per applicable {kind, transport}  *)
(* pair, joins them with a sync.WaitGroup and computes the summary.  Each  *)
(* sampler runs a sequential loop (iterations outside, targets inside),    *)
(* issues one Resource Client call per well-formed target and folds the    *)
(* measured latencies into local totals, which it copies to its            *)
(* accumulator only when at least one call succeeded.                      *)
(***************************************************************************)
EXTENDS Integers, Sequences, FiniteSets, TLC

VARIABLES req, aggPc, launchIdx, wg, sampler, results, summary, ret,
          client, ctx, stream

\* the Resource Client's behaviour and the caller's context
envVars == <<client, ctx>>

vars == <<req, aggPc, launchIdx, wg, sampler, results, summary, ret,
          client, ctx, stream>>

----------------------------------------------------------------------------
(* Bounds of the model *)

\* iterations and targets per kind when all three kinds are requested
MaxIterAll == 1
MaxTargetsAll == 1
\* iterations and targets when a single kind is requested
MaxIter == 2
MaxTargets == 2
\* latencies measured by a call, in milliseconds: 0..MaxLatency, and
\* 0..MaxLatencyAll when more than one kind is requested
MaxLatency == 2
MaxLatencyAll == 1

\* minTime's initial value ^uint64(0).  TLC's integers are 32 bits wide, so
\* the sentinel is represented by the largest of them; like the original it
\* is greater than every latency a call can measure.
MaxUint64 == 2147483647

\* pubkeys in an AccountStreamRequest
MaxPubkeys == 2

\* every stream handler runs `for i := 0; i < 10; i++`
StreamRounds == 10

\* the slot of the first synthetic update
BaseSlot == 100000

----------------------------------------------------------------------------
(* The six pairs, in the order RunBenchmark launches them *)

PairSeq ==
  << "AccountGrpc", "AccountJsonrpc", "TransactionGrpc", "TransactionJsonrpc",
     "BlockGrpc", "BlockJsonrpc" >>

Pairs == { PairSeq[n] : n \in 1..Len(PairSeq) }

Kind(p) ==
  IF p \in {"AccountGrpc", "AccountJsonrpc"} THEN "account"
  ELSE IF p \in {"TransactionGrpc", "TransactionJsonrpc"} THEN "transaction"
  ELSE "block"

Transport(p) ==
  IF p \in {"AccountGrpc", "TransactionGrpc", "BlockGrpc"} THEN "grpc" ELSE "jsonrpc"

\* the target list a pair's sampler ranges over
Targets(r, p) ==
  IF Kind(p) = "account" THEN r.TestAccounts
  ELSE IF Kind(p) = "transaction" THEN r.TestSignatures
  ELSE r.TestSlots

\* the transport-selection flag of a pair
Selected(r, p) ==
  IF Transport(p) = "grpc" THEN r.RunGrpcTests ELSE r.RunJsonrpcTests

----------------------------------------------------------------------------
(* Requests *)

\* A pubkey or signature string is modelled by whether it decodes.
Identifiers == {"wellformed", "malformed"}
\* A slot is a uint64: it needs no decoding.
Slots == {"slot"}

SeqsUpTo(S, n) == UNION { [1..k -> S] : k \in 0..n }

Requests(maxIter, maxTargets) ==
  [ Iterations      : 0..maxIter,
    TestAccounts    : SeqsUpTo(Identifiers, maxTargets),
    TestSignatures  : SeqsUpTo(Identifiers, maxTargets),
    TestSlots       : SeqsUpTo(Slots, maxTargets),
    RunGrpcTests    : BOOLEAN,
    RunJsonrpcTests : BOOLEAN ]

KindsRequested(r) ==
  (IF Len(r.TestAccounts) > 0 THEN 1 ELSE 0)
  + (IF Len(r.TestSignatures) > 0 THEN 1 ELSE 0)
  + (IF Len(r.TestSlots) > 0 THEN 1 ELSE 0)

\* requests that name targets of at most one kind
SingleKindRequests ==
  { r \in Requests(MaxIter, MaxTargets) : KindsRequested(r) <= 1 }

\* requests over all three kinds
AllKindsRequests == Requests(MaxIterAll, MaxTargetsAll)

----------------------------------------------------------------------------
(* Records *)

\* proto.AccountBenchmark{} / TransactionBenchmark{} / BlockBenchmark{}
ZeroBenchmark ==
  [ AvgResponseTimeMs  |-> 0,
    MinResponseTimeMs  |-> 0,
    MaxResponseTimeMs  |-> 0,
    SuccessfulRequests |-> 0,
    FailedRequests     |-> 0 ]

\* proto.BenchmarkSummary{}.  GrpcVsJsonrpcSpeedup is the quotient num/den of
\* two averages, kept exact; Conclusion is the name of the faster transport,
\* the factor num/den it is given and the hundredths x100 that "%.2f" prints
\* of it ("" when no conclusion was written).
ZeroSummary ==
  [ TotalDurationMs      |-> 0,
    GrpcVsJsonrpcSpeedup |-> [num |-> 0, den |-> 1],
    Conclusion           |-> [faster |-> "", num |-> 0, den |-> 1, x100 |-> 0] ]

\* the locals of a sampler before its first attempt
SamplerLocals(pc) ==
  [ pc           |-> pc,
    i            |-> 0,
    j            |-> 1,
    totalTime    |-> 0,
    minTime      |-> MaxUint64,
    maxTime      |-> 0,
    successCount |-> 0,
    inflight     |-> 0,
    issued       |-> << >>,
    parses       |-> 0,
    errs         |-> 0,
    oks          |-> 0,
    sumOk        |-> 0 ]

\* The latencies a call can measure.  The range explored is narrower when the
\* request names more than one kind, where up to six samplers interleave.
Latencies(r) ==
  IF KindsRequested(r) > 1 THEN 0..MaxLatencyAll ELSE 0..MaxLatency

\* the result of one Resource Client call: an error, or a payload after ms
\* milliseconds
Err == [ok |-> FALSE, ms |-> 0]

Ok(ms) == [ok |-> TRUE, ms |-> ms]

AllOutcomes(r) == {Err} \cup { Ok(ms) : ms \in Latencies(r) }

\* The Resource Client of a pair is either free to answer anything (the empty
\* table) or a table that gives, for iteration i and target j, the answers
\* it may give to that call: table[i + 1][j].
FreeClient == << >>

\* no stream handler is running and no client command reads a stream: cmd
\* is the client's command, cpc its position, printed what it has printed
\* and cerr the error its last Recv returned
IdleStream ==
  [ method  |-> "none",
    pubkeys |-> << >>,
    pc      |-> "idle",
    v       |-> 1,
    i       |-> 0,
    j       |-> 1,
    lookups |-> 0,
    found   |-> 0,
    nsent   |-> 0,
    sent    |-> << >>,
    err     |-> "none",
    cmd     |-> "none",
    cpc     |-> "idle",
    printed |-> << >>,
    cerr    |-> "none" ]

----------------------------------------------------------------------------
(* The aggregator: RunBenchmark *)

\* RunBenchmark is entered: nothing launched, the caller's context live
InitRun ==
  /\ aggPc = "launch"
  /\ launchIdx = 1
  /\ wg = 0
  /\ sampler = [p \in Pairs |-> SamplerLocals("idle")]
  /\ results = [p \in Pairs |-> ZeroBenchmark]
  /\ summary = ZeroSummary
  /\ ret = "running"
  /\ ctx = [cancelled |-> FALSE, seen |-> [p \in Pairs |-> SamplerLocals("idle")]]

\* a request of R against a Resource Client that may answer anything
InitWith(R) ==
  /\ req \in R
  /\ client = [p \in Pairs |-> FreeClient]
  /\ InitRun
  /\ stream = IdleStream

Init == InitWith(AllKindsRequests)

InitPair == InitWith(SingleKindRequests)

\* Applicable with the two conditions joined by `||`
ApplicableEither(r, p) == Len(Targets(r, p)) > 0 \/ Selected(r, p)

\* the condition of each `if len(...) > 0 && req.Run...Tests`
Applicable(r, p) == Len(Targets(r, p)) > 0 /\ Selected(r, p)

\* one `if ... { wg.Add(1); go func() {...}() }` statement
RunBenchmarkLaunch ==
  /\ aggPc = "launch"
  /\ launchIdx <= Len(PairSeq)
  /\ LET p == PairSeq[launchIdx] IN
       IF Applicable(req, p)
       THEN /\ wg' = wg + 1
            /\ sampler' = [sampler EXCEPT ![p] = SamplerLocals("loop")]
       ELSE UNCHANGED <<wg, sampler>>
  /\ launchIdx' = launchIdx + 1
  /\ aggPc' = IF launchIdx = Len(PairSeq) THEN "wait" ELSE "launch"
  /\ UNCHANGED <<req, results, summary, ret, envVars, stream>>

\* WaitReturns with one goroutine still counted
WaitReturnsEarly(n) == n <= 1

\* wg.Wait() returns when the counter is zero
WaitReturns(n) == n = 0

WgWait ==
  /\ aggPc = "wait"
  /\ WaitReturns(wg)
  /\ aggPc' = "summary"
  /\ UNCHANGED <<req, launchIdx, wg, sampler, results, summary, ret, envVars, stream>>

\* SpeedupComputed without the test of the gRPC average
SpeedupComputedJsonOnly(jsonAvg, grpcAvg) == jsonAvg > 0

\* the guard of the speedup computation
SpeedupComputed(jsonAvg, grpcAvg) == jsonAvg > 0 /\ grpcAvg > 0

\* fmt.Sprintf("%.2f", num/den) as a number of hundredths: the nearest
\* hundredth, a tie going to the even one; a float64 quotient by zero is
\* +Inf and prints as such.  (The factor of the
\* JSON-RPC conclusion is 1/speedup, a quotient of a rounded quotient; the
\* model rounds the exact quotient once.)
Format2f(num, den) ==
  LET q == (100 * num) \div den
      r == (100 * num) % den IN
  IF den = 0 THEN "+Inf"
  ELSE IF 2 * r > den THEN q + 1
  ELSE IF 2 * r = den THEN q + (q % 2)
  ELSE q

\* GrpcFaster with a tie given to gRPC
GrpcFasterOrEqual(jsonAvg, grpcAvg) == jsonAvg >= grpcAvg

\* `speedup > 1.0`, the speedup being jsonAvg / grpcAvg with grpcAvg > 0
GrpcFaster(jsonAvg, grpcAvg) == jsonAvg > grpcAvg

\* the summary RunBenchmark derives from the two account averages
Speedup(jsonAvg, grpcAvg, total) ==
  IF SpeedupComputed(jsonAvg, grpcAvg)
  THEN [ TotalDurationMs      |-> total,
         GrpcVsJsonrpcSpeedup |-> [num |-> jsonAvg, den |-> grpcAvg],
         Conclusion           |->
           IF GrpcFaster(jsonAvg, grpcAvg)
           THEN [faster |-> "gRPC", num |-> jsonAvg, den |-> grpcAvg,
                 x100 |-> Format2f(jsonAvg, grpcAvg)]
           ELSE [faster |-> "JSON-RPC", num |-> grpcAvg, den |-> jsonAvg,
                 x100 |-> Format2f(grpcAvg, jsonAvg)] ]
  ELSE [ZeroSummary EXCEPT !.TotalDurationMs = total]

\* SpeedupInputs taking the first kind that has both averages
SpeedupInputsAnyKind(res) ==
  IF res["AccountJsonrpc"].AvgResponseTimeMs > 0 /\ res["AccountGrpc"].AvgResponseTimeMs > 0
  THEN << res["AccountJsonrpc"].AvgResponseTimeMs, res["AccountGrpc"].AvgResponseTimeMs >>
  ELSE IF res["TransactionJsonrpc"].AvgResponseTimeMs > 0
          /\ res["TransactionGrpc"].AvgResponseTimeMs > 0
  THEN << res["TransactionJsonrpc"].AvgResponseTimeMs,
          res["TransactionGrpc"].AvgResponseTimeMs >>
  ELSE << res["BlockJsonrpc"].AvgResponseTimeMs, res["BlockGrpc"].AvgResponseTimeMs >>

\* the two averages the speedup is computed from: the account pair's
SpeedupInputs(res) ==
  << res["AccountJsonrpc"].AvgResponseTimeMs, res["AccountGrpc"].AvgResponseTimeMs >>

\* `Calculate summary` ... `return results, nil`; the wall-clock duration
\* is whatever the clock says
CalculateSummary ==
  /\ aggPc = "summary"
  /\ \E total \in Latencies(req) :
       summary' = Speedup(SpeedupInputs(results)[1], SpeedupInputs(results)[2], total)
  /\ aggPc' = "done"
  /\ ret' = "nil"
  /\ UNCHANGED <<req, launchIdx, wg, sampler, results, envVars, stream>>

----------------------------------------------------------------------------
(* The samplers: run<Kind><Transport>Benchmark *)

\* solana.PublicKeyFromBase58 / solana.SignatureFromBase58 succeed; a block
\* ParseOk with a gRPC handler that does not decode its argument
ParseOkJsonrpcOnly(p, target) ==
  Kind(p) = "block" \/ Transport(p) = "grpc" \/ target = "wellformed"

\* sampler passes the slot on undecoded
ParseOk(p, target) == Kind(p) = "block" \/ target = "wellformed"

\* NextPos with a target index that is not reset for the next iteration
NextPosNoReset(s, k) ==
  IF s.j < k THEN [s EXCEPT !.j = s.j + 1] ELSE [s EXCEPT !.i = s.i + 1]

\* the loop position after the attempt at (i, j)
NextPos(s, k) ==
  IF s.j < k THEN [s EXCEPT !.j = s.j + 1] ELSE [s EXCEPT !.i = s.i + 1, !.j = 1]

\* Accumulate with minTime overwritten by every sample
AccumulateLastAsMin(s, ms) ==
  [s EXCEPT !.totalTime = s.totalTime + ms,
            !.successCount = s.successCount + 1,
            !.minTime = ms,
            !.maxTime = IF ms > s.maxTime THEN ms ELSE s.maxTime]

\* the `if err == nil { ... }` block: one successful sample of ms milliseconds
Accumulate(s, ms) ==
  [s EXCEPT !.totalTime = s.totalTime + ms,
            !.successCount = s.successCount + 1,
            !.minTime = IF ms < s.minTime THEN ms ELSE s.minTime,
            !.maxTime = IF ms > s.maxTime THEN ms ELSE s.maxTime]

\* IterationsLeft of a loop whose body runs before its first test
IterationsLeftDoWhile(s, iters) == s.i < iters \/ (s.i = 0 /\ s.j = 1)

\* the loop condition `i < int(req.Iterations)`
IterationsLeft(s, iters) == s.i < iters

\* the start of one attempt: decode the target and, if it decodes, issue the
\* Resource Client call.  A target that does not decode ends the attempt:
\* the JSON-RPC samplers `continue`, the gRPC handlers return InvalidArgument
\* and the sampler skips its `if err == nil` block.
SamplerAttempt(p) ==
  LET s == sampler[p]
      k == Len(Targets(req, p)) IN
  /\ s.pc = "loop"
  /\ IterationsLeft(s, req.Iterations)
  /\ IF ParseOk(p, Targets(req, p)[s.j])
     THEN sampler' = [sampler EXCEPT ![p] =
            [s EXCEPT !.pc = "call",
                      !.inflight = s.inflight + 1,
                      !.issued = Append(s.issued, <<s.i, s.j>>)]]
     ELSE sampler' = [sampler EXCEPT ![p] =
            [NextPos(s, k) EXCEPT
               !.parses = s.parses + 1]]
  /\ UNCHANGED <<req, aggPc, launchIdx, wg, results, summary, ret, envVars, stream>>

\* the answers the Resource Client may give to the call pair p has in
\* flight: only an error once the context is cancelled
Outcomes(p) ==
  IF ctx.cancelled THEN {Err}
  ELSE IF client[p] = FreeClient THEN AllOutcomes(req)
  ELSE client[p][sampler[p].i + 1][sampler[p].j]

\* AfterCall without the `if err == nil` test: a failed call is a sample too
AfterCallNoErrCheck(s, k, o) ==
  [NextPos(Accumulate(s, o.ms), k) EXCEPT
     !.pc = "loop",
     !.inflight = s.inflight - 1,
     !.oks = IF o.ok THEN s.oks + 1 ELSE s.oks,
     !.errs = IF o.ok THEN s.errs ELSE s.errs + 1,
     !.sumOk = s.sumOk + o.ms]

\* the sampler's locals after the call at (i, j) returned o
AfterCall(s, k, o) ==
  IF o.ok
  THEN [NextPos(Accumulate(s, o.ms), k) EXCEPT
          !.pc = "loop",
          !.inflight = s.inflight - 1,
          !.oks = s.oks + 1,
          !.sumOk = s.sumOk + o.ms]
  ELSE [NextPos(s, k) EXCEPT
          !.pc = "loop",
          !.inflight = s.inflight - 1,
          !.errs = s.errs + 1]

\* the Resource Client call returns: an error, or a result after ms
\* milliseconds
ResourceClientReturn(p) ==
  LET s == sampler[p]
      k == Len(Targets(req, p)) IN
  /\ s.pc = "call"
  /\ \E o \in Outcomes(p) :
       sampler' = [sampler EXCEPT ![p] = AfterCall(s, k, o)]
  /\ UNCHANGED <<req, aggPc, launchIdx, wg, results, summary, ret, envVars, stream>>

\* FinalStats with only the division guarded
FinalStatsUnguarded(s, old, k, iters) ==
  [ AvgResponseTimeMs  |-> IF s.successCount > 0
                           THEN s.totalTime \div s.successCount ELSE 0,
    MinResponseTimeMs  |-> s.minTime,
    MaxResponseTimeMs  |-> s.maxTime,
    SuccessfulRequests |-> s.successCount,
    FailedRequests     |-> (k * iters) - s.successCount ]

\* FinalStats with the average rounded up
FinalStatsCeil(s, old, k, iters) ==
  IF s.successCount > 0
  THEN [ AvgResponseTimeMs  |-> (s.totalTime + s.successCount - 1) \div s.successCount,
         MinResponseTimeMs  |-> s.minTime,
         MaxResponseTimeMs  |-> s.maxTime,
         SuccessfulRequests |-> s.successCount,
         FailedRequests     |-> (k * iters) - s.successCount ]
  ELSE old

\* the statistics a sampler leaves in its accumulator after the loop
FinalStats(s, old, k, iters) ==
  IF s.successCount > 0
  THEN [ AvgResponseTimeMs  |-> s.totalTime \div s.successCount,
         MinResponseTimeMs  |-> s.minTime,
         MaxResponseTimeMs  |-> s.maxTime,
         SuccessfulRequests |-> s.successCount,
         FailedRequests     |-> (k * iters) - s.successCount ]
  ELSE old

\* WriteResult with one accumulator per kind, shared by both transports
WriteResultShared(res, p, stats) ==
  [q \in Pairs |-> IF Kind(q) = Kind(p) THEN stats ELSE res[q]]

\* each goroutine is handed the accumulator of its own pair
WriteResult(res, p, stats) == [res EXCEPT ![p] = stats]

\* the loop is over: write the accumulator, then the deferred wg.Done()
SamplerFinish(p) ==
  LET s == sampler[p] IN
  /\ s.pc = "loop"
  /\ ~IterationsLeft(s, req.Iterations)
  /\ results' = WriteResult(results, p,
       FinalStats(s, results[p], Len(Targets(req, p)), req.Iterations))
  /\ sampler' = [sampler EXCEPT ![p].pc = "done"]
  /\ wg' = wg - 1
  /\ UNCHANGED <<req, aggPc, launchIdx, summary, ret, envVars, stream>>

----------------------------------------------------------------------------

Next ==
  \/ RunBenchmarkLaunch
  \/ WgWait
  \/ CalculateSummary
  \/ \E p \in Pairs : SamplerAttempt(p)
  \/ \E p \in Pairs : ResourceClientReturn(p)
  \/ \E p \in Pairs : SamplerFinish(p)

Spec == Init /\ [][Next]_vars

\* The Resource Client never answers the call pair p has in flight: the
\* sampler stays blocked in it.
ResourceClientHang(p) ==
  /\ sampler[p].pc = "call"
  /\ ~ctx.cancelled
  /\ sampler' = [sampler EXCEPT ![p].pc = "hung"]
  /\ UNCHANGED <<req, aggPc, launchIdx, wg, results, summary, ret, envVars, stream>>

NextHang ==
  \/ Next
  \/ \E p \in Pairs : ResourceClientHang(p)

\* The Go scheduler runs every goroutine that can run; a call that does not
\* hang returns.
Fairness ==
  /\ WF_vars(RunBenchmarkLaunch)
  /\ WF_vars(WgWait)
  /\ WF_vars(CalculateSummary)
  /\ \A p \in Pairs : WF_vars(SamplerAttempt(p))
  /\ \A p \in Pairs : WF_vars(ResourceClientReturn(p))
  /\ \A p \in Pairs : WF_vars(SamplerFinish(p))

\* requests of at most one kind with few iterations
SmallRequests ==
  { r \in Requests(MaxIterAll, MaxTargets) : KindsRequested(r) <= 1 }

InitSmall == InitWith(SmallRequests)

\* a Resource Client that answers a pair's only target with the latencies
\* ms[1], ms[2], ..., one per iteration
Scripted(ms) == [n \in 1..Len(ms) |-> << {Ok(ms[n])} >>]

\* the scenario of the specification: 5 iterations, 1 account target, both
\* transports, every call succeeding with the given latencies
InitScenario ==
  /\ req = [ Iterations      |-> 5,
             TestAccounts    |-> << "wellformed" >>,
             TestSignatures  |-> << >>,
             TestSlots       |-> << >>,
             RunGrpcTests    |-> TRUE,
             RunJsonrpcTests |-> TRUE ]
  /\ client = [p \in Pairs |->
                 IF p = "AccountGrpc" THEN Scripted(<<10, 12, 11, 9, 10>>)
                 ELSE IF p = "AccountJsonrpc" THEN Scripted(<<50, 48, 52, 51, 49>>)
                 ELSE FreeClient]
  /\ InitRun
  /\ stream = IdleStream

SpecScenario == InitScenario /\ [][Next]_vars

\* The caller's context is cancelled (its deadline passes, or the caller
\* goes away) while RunBenchmark runs; ctx.seen keeps what every sampler
\* had measured by then.
Cancel ==
  /\ ret = "running"
  /\ ~ctx.cancelled
  /\ ctx' = [cancelled |-> TRUE, seen |-> sampler]
  /\ UNCHANGED <<req, aggPc, launchIdx, wg, sampler, results, summary, ret, client, stream>>

NextCancel ==
  \/ Next
  \/ Cancel

SpecCancel == InitSmall /\ [][NextCancel]_vars /\ Fairness

\* a deterministic mock Resource Client: whether a call succeeds is the
\* function f of its target alone; its latency may vary
MockTable(r, k, f) ==
  [n \in 1..r.Iterations |->
     [j \in 1..k |-> IF f[j] THEN { Ok(ms) : ms \in Latencies(r) } ELSE {Err}]]

MockTables(r, p) ==
  LET k == Len(Targets(r, p)) IN
  IF Applicable(r, p)
  THEN { MockTable(r, k, f) : f \in [1..k -> BOOLEAN] }
  ELSE {FreeClient}

\* a request of a single kind against deterministic mocks, one per pair
InitMock ==
  /\ req \in SingleKindRequests
  /\ client \in [Pairs -> UNION { MockTables(req, p) : p \in Pairs }]
  /\ \A p \in Pairs : client[p] \in MockTables(req, p)
  /\ InitRun
  /\ stream = IdleStream

SpecMock == InitMock /\ [][Next]_vars

\* a Resource Client that answers the call for target j in iteration n with
\* one given outcome
OutcomeTables(r) ==
  LET k == Len(r.TestAccounts) + Len(r.TestSignatures) + Len(r.TestSlots) IN
  [1..r.Iterations -> [1..k -> { {o} : o \in AllOutcomes(r) }]]

\* a request of a single kind over both transports, whose two samplers are
\* given the same answers
InitSame ==
  /\ req \in { r \in SingleKindRequests : r.RunGrpcTests /\ r.RunJsonrpcTests }
  /\ \E T \in OutcomeTables(req) :
       client = [p \in Pairs |-> IF Applicable(req, p) THEN T ELSE FreeClient]
  /\ InitRun
  /\ stream = IdleStream

SpecSame == InitSame /\ [][Next]_vars

----------------------------------------------------------------------------
(* The stream handlers: StreamTransactions, StreamBlocks,
   StreamAccountUpdates.  stream.sent is what the handler has sent; a Send
   may fail at any time (the client went away). *)

\* the handler is entered with its request
StreamCalls ==
  { [IdleStream EXCEPT !.method = m, !.pc = "loop"] :
      m \in {"StreamTransactions", "StreamBlocks"} }
  \cup
  { [IdleStream EXCEPT !.method = "StreamAccountUpdates", !.pc = "validate",
                       !.pubkeys = ks] : ks \in SeqsUpTo(Identifiers, MaxPubkeys) }

\* StreamMore with one round too many
StreamMoreInclusive(i) == i <= StreamRounds

\* the loop condition `i < 10`
StreamMore(i) == i < StreamRounds

\* &proto.TransactionUpdate{...} of round i
TransactionUpdate(i) ==
  [ Signature |-> i, Slot |-> BaseSlot + i, Success |-> TRUE ]

\* &proto.BlockUpdate{...} of round i
BlockUpdate(i) ==
  [ Slot |-> BaseSlot + i, Blockhash |-> i, PreviousBlockhash |-> i - 1,
    ParentSlot |-> BaseSlot + i - 1 ]

\* one round of a synthetic stream: send the update of round i, return
\* Internal if the send fails; after the last round return nil
SyntheticStream(method, update) ==
  /\ stream.method = method
  /\ stream.pc = "loop"
  /\ IF StreamMore(stream.i)
     THEN \E sendOk \in BOOLEAN :
            stream' = IF sendOk
                      THEN [stream EXCEPT !.sent = Append(stream.sent, update),
                                          !.nsent = stream.nsent + 1,
                                          !.i = stream.i + 1]
                      ELSE [stream EXCEPT !.pc = "done", !.err = "Internal"]
     ELSE stream' = [stream EXCEPT !.pc = "done", !.err = "nil"]
  /\ UNCHANGED <<req, aggPc, launchIdx, wg, sampler, results, summary, ret, envVars>>

StreamTransactions == SyntheticStream("StreamTransactions", TransactionUpdate(stream.i))

StreamBlocks == SyntheticStream("StreamBlocks", BlockUpdate(stream.i))

\* Validated after the first pubkey alone
ValidatedFirstOnly(pubkeys, v) == v > 1 \/ v > Len(pubkeys)

\* the conversion loop has seen every pubkey
Validated(pubkeys, v) == v > Len(pubkeys)

\* the position after the pubkey at (i, j): the next pubkey, or the next
\* round
StreamNextPos(st) ==
  IF st.j < Len(st.pubkeys)
  THEN [st EXCEPT !.j = st.j + 1, !.pc = "loop"]
  ELSE [st EXCEPT !.i = st.i + 1, !.j = 1, !.pc = "loop"]

\* AfterLookupError that ends the stream
AfterLookupErrorAbort(st) ==
  [st EXCEPT !.lookups = st.lookups + 1, !.pc = "done", !.err = "Internal"]

\* GetAccountInfo failed: log and `continue`
AfterLookupError(st) == [StreamNextPos(st) EXCEPT !.lookups = st.lookups + 1]

StreamAccountUpdates ==
  /\ stream.method = "StreamAccountUpdates"
  /\ \/ /\ stream.pc = "validate"
        /\ stream' =
             IF Validated(stream.pubkeys, stream.v)
             THEN [stream EXCEPT !.pc = "loop"]
             ELSE IF stream.pubkeys[stream.v] = "malformed"
             THEN [stream EXCEPT !.pc = "done", !.err = "InvalidArgument"]
             ELSE [stream EXCEPT !.v = stream.v + 1]
     \/ /\ stream.pc = "loop"
        /\ StreamMore(stream.i)
        /\ IF Len(stream.pubkeys) = 0
           THEN stream' = [stream EXCEPT !.i = stream.i + 1]
           ELSE \E lookupOk \in BOOLEAN :
                  stream' = IF lookupOk
                            THEN [stream EXCEPT !.lookups = stream.lookups + 1,
                                                !.found = stream.found + 1,
                                                !.pc = "send"]
                            ELSE AfterLookupError(stream)
     \/ /\ stream.pc = "send"
        /\ \E sendOk \in BOOLEAN :
             stream' = IF sendOk
                       THEN [StreamNextPos(stream) EXCEPT !.nsent = stream.nsent + 1]
                       ELSE [stream EXCEPT !.pc = "done", !.err = "Internal"]
     \/ /\ stream.pc = "loop"
        /\ ~StreamMore(stream.i)
        /\ stream' = [stream EXCEPT !.pc = "done", !.err = "nil"]
  /\ UNCHANGED <<req, aggPc, launchIdx, wg, sampler, results, summary, ret, envVars>>

\* no benchmark runs beside the stream
EmptyRequest ==
  [ Iterations      |-> 0,
    TestAccounts    |-> << >>,
    TestSignatures  |-> << >>,
    TestSlots       |-> << >>,
    RunGrpcTests    |-> FALSE,
    RunJsonrpcTests |-> FALSE ]

InitStream ==
  /\ req = EmptyRequest
  /\ client = [p \in Pairs |-> FreeClient]
  /\ InitRun
  /\ stream \in StreamCalls

NextStream ==
  \/ StreamTransactions
  \/ StreamBlocks
  \/ StreamAccountUpdates

SpecStream == InitStream /\ [][NextStream]_vars

----------------------------------------------------------------------------
(* The client's stream commands: streamAccounts, streamTransactions,
   streamBlocks.  The updates arrive in the order they were sent. *)

\* the value of the --pubkey flag
PubkeyFlags == Identifiers \cup {""}

\* the commands the client can be started with
ClientCommands ==
  { [IdleStream EXCEPT !.cmd = c, !.cpc = "open"] :
      c \in {"stream-transactions", "stream-blocks"} }
  \cup
  { [IdleStream EXCEPT !.cmd = "stream-accounts", !.cpc = "open",
                       !.pubkeys = << k >>] : k \in PubkeyFlags }

\* the handler the server enters for the client's call
HandlerEntered(st, method) ==
  [st EXCEPT !.method = method,
             !.pc = IF method = "StreamAccountUpdates" THEN "validate" ELSE "loop",
             !.cpc = "recv"]

\* the n-th update of the stream as the client prints it
Received(st, n) ==
  IF st.method = "StreamAccountUpdates" THEN [Update |-> n] ELSE st.sent[n]

\* AfterRecvError with the end of the stream taken for a normal return
AfterRecvErrorReturnOnEOF(st, e) ==
  [st EXCEPT !.cpc = IF e = "EOF" THEN "returned" ELSE "fatal", !.cerr = e]

\* `if err != nil { log.Fatalf(...) }` after stream.Recv()
AfterRecvError(st, e) == [st EXCEPT !.cpc = "fatal", !.cerr = e]

\* what Recv returns once the handler has returned and every update sent
\* has been received: io.EOF after a nil return, the handler's status
\* otherwise
EndOfStream(st) == IF st.err = "nil" THEN "EOF" ELSE st.err

\* one step of a stream command: the test of the flag and the call that opens
\* the stream, or one round of the receive loop
ClientStream(cmd, method) ==
  /\ stream.cmd = cmd
  /\ \/ /\ stream.cpc = "open"
        /\ IF cmd = "stream-accounts" /\ stream.pubkeys[1] = ""
           THEN stream' = [stream EXCEPT !.cpc = "fatal", !.cerr = "flag"]
           ELSE \E opened \in BOOLEAN :
                  stream' = IF opened
                            THEN HandlerEntered(stream, method)
                            ELSE [stream EXCEPT !.cpc = "fatal", !.cerr = "open"]
     \/ /\ stream.cpc = "recv"
        /\ Len(stream.printed) < stream.nsent
        /\ stream' = [stream EXCEPT !.printed =
             Append(stream.printed, Received(stream, Len(stream.printed) + 1))]
     \/ /\ stream.cpc = "recv"
        /\ Len(stream.printed) = stream.nsent
        /\ stream.pc = "done"
        /\ stream' = AfterRecvError(stream, EndOfStream(stream))
     \/ /\ stream.cpc = "recv"
        /\ stream' = AfterRecvError(stream, "Unavailable")
  /\ UNCHANGED <<req, aggPc, launchIdx, wg, sampler, results, summary, ret, envVars>>

streamAccounts == ClientStream("stream-accounts", "StreamAccountUpdates")

streamTransactions == ClientStream("stream-transactions", "StreamTransactions")

streamBlocks == ClientStream("stream-blocks", "StreamBlocks")

InitClient ==
  /\ req = EmptyRequest
  /\ client = [p \in Pairs |-> FreeClient]
  /\ InitRun
  /\ stream \in ClientCommands

NextClient ==
  \/ NextStream
  \/ streamAccounts
  \/ streamTransactions
  \/ streamBlocks

\* the server and the client keep running
SpecClient == InitClient /\ [][NextClient]_vars /\ WF_vars(NextClient)

SpecHang == InitSmall /\ [][NextHang]_vars /\ Fairness

SpecPair == InitPair /\ [][Next]_vars

----------------------------------------------------------------------------
(* Vocabulary of the properties *)

\* the goroutine of pair p was started
Launched(p) == sampler[p].pc # "idle"

\* RunBenchmark has returned
Returned == ret = "nil"

\* the number of attempts of pair p: iterations x targets
Attempts(p) == req.Iterations * Len(Targets(req, p))

\* every attempt of pair p was made and none succeeded
AllFailed(p) ==
  /\ Launched(p)
  /\ sampler[p].pc = "done"
  /\ Attempts(p) > 0
  /\ sampler[p].oks = 0

----------------------------------------------------------------------------
(* C1: for every launched pair the returned ResourceBenchmark has
   successfulRequests + failedRequests = iterations x targets, whatever the
   outcomes of the attempts (all succeed, some fail, all fail). *)
C1_CountsAddUp ==
  Returned =>
    \A p \in Pairs :
      Launched(p) =>
        results[p].SuccessfulRequests + results[p].FailedRequests = Attempts(p)

(* C2, as stated: if every attempt of a launched pair fails, the returned
   ResourceBenchmark has successfulRequests = 0 and minMs equal to the
   sentinel maximum. *)
C2_MinIsSentinel ==
  Returned =>
    \A p \in Pairs :
      AllFailed(p) =>
        /\ results[p].SuccessfulRequests = 0
        /\ results[p].MinResponseTimeMs = MaxUint64

(* C2, amended: if every attempt of a launched pair fails, the returned
   ResourceBenchmark has successfulRequests = 0 and minMs = 0; the sentinel
   maximum stays in the sampler's local minTime and is never copied to the
   result. *)
C2_SentinelStaysLocal ==
  Returned =>
    \A p \in Pairs :
      AllFailed(p) =>
        /\ results[p].SuccessfulRequests = 0
        /\ results[p].MinResponseTimeMs = 0
        /\ sampler[p].minTime = MaxUint64

C2_Witness ==
  /\ Returned
  /\ \E p \in Pairs : AllFailed(p) /\ sampler[p].errs = Attempts(p)

(* C3: if every attempt of a launched pair fails, RunBenchmark still returns
   a complete BenchmarkResults (six accumulators, a summary, a nil error) and
   the pair's avgMs, minMs, maxMs and successfulRequests are all 0. *)
C3_ZeroedOnTotalFailure ==
  (\E p \in Pairs : AllFailed(p) /\ aggPc = "done") =>
    /\ ret = "nil"
    /\ DOMAIN results = Pairs
    /\ \A p \in Pairs :
         AllFailed(p) =>
           /\ results[p].AvgResponseTimeMs = 0
           /\ results[p].MinResponseTimeMs = 0
           /\ results[p].MaxResponseTimeMs = 0
           /\ results[p].SuccessfulRequests = 0

C3_Witness ==
  /\ Returned
  /\ \E p, q \in Pairs :
       /\ AllFailed(p)
       /\ sampler[p].parses > 0
       /\ sampler[p].errs > 0
       /\ results[q].SuccessfulRequests > 0

----------------------------------------------------------------------------
(* C4: RunBenchmark computes the summary and returns only after every
   launched sampler has completed: whenever the aggregator is past the join,
   every applicable pair's sampler has written its statistics and called
   Done, no call is in flight, and the summary is still untouched until
   then. *)
C4_SummaryAfterJoin ==
  /\ aggPc \in {"summary", "done"} =>
       /\ wg = 0
       /\ \A p \in Pairs :
            /\ sampler[p].pc \in {"idle", "done"}
            /\ sampler[p].inflight = 0
            /\ (Len(Targets(req, p)) > 0 /\ Selected(req, p)) => sampler[p].pc = "done"
  /\ aggPc # "done" => summary = ZeroSummary /\ ret = "running"

C4_Witness ==
  /\ aggPc = "done"
  /\ \A p \in Pairs : sampler[p].pc = "done"
  /\ \E p \in Pairs : results[p].SuccessfulRequests > 0
  /\ \E p \in Pairs : sampler[p].errs > 0

(* C5: a sampler is launched for a pair if and only if the kind's target
   list is non-empty and the transport's flag is true; at most 6 tasks run;
   a pair without a task makes no Resource Client call and keeps an all-zero
   ResourceBenchmark. *)
C5_LaunchedIffApplicable ==
  /\ \A n \in 1..Len(PairSeq) :
       LET p == PairSeq[n] IN
         IF n < launchIdx
         THEN Launched(p) <=> (Len(Targets(req, p)) > 0 /\ Selected(req, p))
         ELSE ~Launched(p)
  /\ Cardinality({p \in Pairs : Launched(p)}) <= 6
  /\ wg <= 6
  /\ \A p \in Pairs :
       ~Launched(p) =>
         /\ sampler[p].issued = << >>
         /\ sampler[p].inflight = 0
         /\ results[p] = ZeroBenchmark

C5_Witness ==
  /\ Returned
  /\ Len(req.TestAccounts) = 1
  /\ Len(req.TestSignatures) = 0
  /\ Len(req.TestSlots) = 0
  /\ results["AccountGrpc"].SuccessfulRequests > 0
  /\ results["AccountJsonrpc"].SuccessfulRequests > 0
  /\ \A p \in Pairs : Kind(p) # "account" => ~Launched(p) /\ results[p] = ZeroBenchmark

(* C6: the speedup ratio is computed only when the account gRPC average and
   the account JSON-RPC average are both non-zero (it is then their
   quotient); in every other case speedupRatio stays 0 and the conclusion is
   empty. *)
C6_SpeedupGuarded ==
  LET jsonAvg == results["AccountJsonrpc"].AvgResponseTimeMs
      grpcAvg == results["AccountGrpc"].AvgResponseTimeMs IN
  Returned =>
    IF jsonAvg # 0 /\ grpcAvg # 0
    THEN /\ summary.GrpcVsJsonrpcSpeedup = [num |-> jsonAvg, den |-> grpcAvg]
         /\ summary.Conclusion.faster # ""
    ELSE /\ summary.GrpcVsJsonrpcSpeedup = [num |-> 0, den |-> 1]
         /\ summary.Conclusion.faster = ""

C6_Witness ==
  /\ Returned
  /\ results["AccountJsonrpc"].AvgResponseTimeMs > results["AccountGrpc"].AvgResponseTimeMs
  /\ results["AccountGrpc"].AvgResponseTimeMs > 0
  /\ summary.GrpcVsJsonrpcSpeedup.num > summary.GrpcVsJsonrpcSpeedup.den

(* C7: for every pair with successfulRequests > 0 in a returned result,
   minMs <= avgMs <= maxMs, whatever the successful latencies and the
   failures between them. *)
C7_AvgBetweenMinAndMax ==
  Returned =>
    \A p \in Pairs :
      results[p].SuccessfulRequests > 0 =>
        /\ results[p].MinResponseTimeMs <= results[p].AvgResponseTimeMs
        /\ results[p].AvgResponseTimeMs <= results[p].MaxResponseTimeMs

C7_Witness ==
  /\ Returned
  /\ \E p \in Pairs :
       /\ results[p].SuccessfulRequests > 1
       /\ results[p].MinResponseTimeMs < results[p].AvgResponseTimeMs
       /\ results[p].AvgResponseTimeMs < results[p].MaxResponseTimeMs
       /\ sampler[p].errs > 0

(* C8: in an account or transaction sampler an attempt whose target fails to
   parse is counted in failedRequests, makes no Resource Client call and
   adds no sample, whether or not the other attempts of the pair succeed. *)
C8_ParseFailureCounted ==
  Returned =>
    \A p \in Pairs :
      (Launched(p) /\ Kind(p) \in {"account", "transaction"}) =>
        /\ results[p].FailedRequests >= sampler[p].parses
        /\ Len(sampler[p].issued) = Attempts(p) - sampler[p].parses
        /\ results[p].SuccessfulRequests <= Len(sampler[p].issued)

(* C9: a failed call inside one sampler never aborts RunBenchmark or another
   sampler: RunBenchmark only ever returns a nil error, and every step that
   changes the state of one pair (its loop, its call, its statistics) leaves
   the sampler and the accumulator of every other pair as they were. *)
C9_Step ==
  \A p \in Pairs :
    (sampler'[p] # sampler[p]) =>
      \A q \in Pairs \ {p} : sampler'[q] = sampler[q] /\ results'[q] = results[q]

C9_FailuresStayLocal ==
  /\ [](ret \in {"running", "nil"})
  /\ [](aggPc = "done" => ret = "nil")
  /\ [][C9_Step]_vars

C9_Witness ==
  /\ Returned
  /\ AllFailed("AccountGrpc")
  /\ sampler["AccountGrpc"].errs > 0
  /\ \A q \in Pairs \ {"AccountGrpc"} : results[q].SuccessfulRequests = 1

\* the calls of a sampler over k well-formed targets, in the order of the
\* claim: iteration-major, target-minor
CallsInOrder(iters, k) ==
  [n \in 1..(iters * k) |-> << (n - 1) \div k, ((n - 1) % k) + 1 >>]

\* every target of pair p decodes
AllWellFormed(p) ==
  \A n \in 1..Len(Targets(req, p)) : Kind(p) = "block" \/ Targets(req, p)[n] = "wellformed"

(* C10: a sampler with iteration count I and K well-formed targets issues
   exactly I x K Resource Client calls, never two at once, in
   iteration-major, target-minor order, each (iteration, target) once; a
   failed attempt is not retried. *)
C10_SequentialCalls ==
  \A p \in Pairs :
    (Launched(p) /\ AllWellFormed(p)) =>
      LET s == sampler[p]
          want == CallsInOrder(req.Iterations, Len(Targets(req, p))) IN
      /\ s.inflight <= 1
      /\ Len(s.issued) <= Len(want)
      /\ s.issued = SubSeq(want, 1, Len(s.issued))
      /\ s.oks + s.errs + s.inflight = Len(s.issued)
      /\ s.pc = "done" => s.issued = want

C10_Witness ==
  \E p \in Pairs :
    /\ sampler[p].pc = "done"
    /\ req.Iterations = 2
    /\ Len(Targets(req, p)) = 2
    /\ AllWellFormed(p)
    /\ Len(sampler[p].issued) = 4
    /\ sampler[p].errs > 0
    /\ sampler[p].oks > 0

----------------------------------------------------------------------------
(* C11: in every interleaving each sampler task writes only the
   ResourceBenchmark of its own pair, writes it at most once and only after
   its last attempt, no two tasks write the same accumulator, and the
   summary is written only by the aggregator after the join. *)
C11_Step ==
  /\ \A p \in Pairs :
       results'[p] # results[p] =>
         /\ sampler[p].pc = "loop"
         /\ sampler[p].i >= req.Iterations
         /\ sampler'[p].pc = "done"
         /\ \A q \in Pairs \ {p} : results'[q] = results[q]
  /\ \A p \in Pairs :
       sampler[p].pc = "done" => results'[p] = results[p] /\ sampler'[p] = sampler[p]
  /\ summary' # summary =>
       /\ aggPc = "summary"
       /\ wg = 0
       /\ \A p \in Pairs : sampler[p].pc \in {"idle", "done"}
       /\ results' = results

C11_OwnAccumulatorOnly == [][C11_Step]_vars

C11_Witness ==
  /\ Returned
  /\ \A p \in Pairs : sampler[p].pc = "done" /\ results[p].SuccessfulRequests = 1
  /\ results["AccountGrpc"] # results["AccountJsonrpc"]
  /\ summary # ZeroSummary

----------------------------------------------------------------------------
\* some call of a launched sampler never returns
SomeCallHung == \E p \in Pairs : sampler[p].pc = "hung"

(* C12: RunBenchmark has no timeout of its own.  Under fair scheduling it
   returns if and only if every Resource Client call of a launched sampler
   returns: it eventually returns unless some call hangs, it has returned
   only when no call is hung or in flight, and while one call hangs the join
   stays blocked (RunBenchmark never returns), also after every other
   sampler has finished. *)
C12_HungCallBlocksJoin ==
  /\ <>(Returned \/ SomeCallHung)
  /\ [](SomeCallHung => ret = "running" /\ aggPc \in {"launch", "wait"})
  /\ [](Returned => \A p \in Pairs : sampler[p].inflight = 0)
  /\ [][SomeCallHung => SomeCallHung']_vars

C12_Witness ==
  /\ aggPc = "wait"
  /\ wg = 1
  /\ sampler["AccountGrpc"].pc = "hung"
  /\ sampler["AccountJsonrpc"].pc = "done"
  /\ results["AccountJsonrpc"].SuccessfulRequests > 0

----------------------------------------------------------------------------
\* x100 is the hundredth nearest to num / den
NearestHundredth(x100, num, den) ==
  LET d == (x100 * den) - (100 * num) IN
  2 * (IF d < 0 THEN 0 - d ELSE d) <= den

(* C13: when the ratio is computed, the conclusion names gRPC as faster with
   factor ratio if ratio > 1.0, and otherwise, ratio = 1.0 included, names
   JSON-RPC as faster with factor 1 / ratio; the factor is printed to two
   decimals. *)
C13_ConclusionNamesFaster ==
  LET ratio == summary.GrpcVsJsonrpcSpeedup
      c == summary.Conclusion IN
  (Returned /\ ratio.num # 0) =>
    IF ratio.num > ratio.den
    THEN /\ c.faster = "gRPC"
         /\ c.num * ratio.den = c.den * ratio.num
         /\ NearestHundredth(c.x100, ratio.num, ratio.den)
    ELSE /\ c.faster = "JSON-RPC"
         /\ c.num * ratio.num = c.den * ratio.den
         /\ NearestHundredth(c.x100, ratio.den, ratio.num)

C13_Witness ==
  /\ Returned
  /\ summary.GrpcVsJsonrpcSpeedup = [num |-> 2, den |-> 2]
  /\ summary.Conclusion.faster = "JSON-RPC"
  /\ summary.Conclusion.x100 = 100

----------------------------------------------------------------------------
(* C14: speedupRatio and the conclusion depend only on the two account
   averages: the returned ratio and conclusion are the function Speedup of
   the account JSON-RPC and gRPC averages alone, whatever the transaction
   and block statistics are, and with no account targets the ratio is 0 and
   the conclusion empty even if the transaction and block pairs have
   non-zero averages. *)
C14_AccountPairOnly ==
  Returned =>
    /\ summary = Speedup(results["AccountJsonrpc"].AvgResponseTimeMs,
                         results["AccountGrpc"].AvgResponseTimeMs,
                         summary.TotalDurationMs)
    /\ Len(req.TestAccounts) = 0 =>
         /\ summary.GrpcVsJsonrpcSpeedup = [num |-> 0, den |-> 1]
         /\ summary.Conclusion.faster = ""

C14_Witness ==
  /\ Returned
  /\ Len(req.TestAccounts) = 0
  /\ \A p \in Pairs : Kind(p) # "account" => results[p].AvgResponseTimeMs > 0
  /\ summary.GrpcVsJsonrpcSpeedup = [num |-> 0, den |-> 1]
  /\ summary.Conclusion.faster = ""

----------------------------------------------------------------------------
(* C15: avgMs of a pair is the integer-truncated quotient of the sum of its
   successful latencies by successfulRequests, and speedupRatio is the
   account JSON-RPC average divided by the account gRPC average: in the
   scenario (5 iterations, 1 account target, both transports, gRPC latencies
   10, 12, 11, 9, 10 and JSON-RPC latencies 50, 48, 52, 51, 49) the result
   has gRPC average 10, JSON-RPC average 50, ratio 5.0 and the conclusion
   that gRPC is 5.00x faster. *)
C15_ScenarioAverages ==
  Returned =>
    /\ \A p \in Pairs :
         results[p].SuccessfulRequests > 0 =>
           /\ results[p].SuccessfulRequests = sampler[p].oks
           /\ results[p].AvgResponseTimeMs * sampler[p].oks <= sampler[p].sumOk
           /\ sampler[p].sumOk < (results[p].AvgResponseTimeMs + 1) * sampler[p].oks
    /\ results["AccountGrpc"].AvgResponseTimeMs = 10
    /\ results["AccountJsonrpc"].AvgResponseTimeMs = 50
    /\ summary.GrpcVsJsonrpcSpeedup.num = 5 * summary.GrpcVsJsonrpcSpeedup.den
    /\ summary.GrpcVsJsonrpcSpeedup.num = results["AccountJsonrpc"].AvgResponseTimeMs
    /\ summary.GrpcVsJsonrpcSpeedup.den = results["AccountGrpc"].AvgResponseTimeMs
    /\ summary.Conclusion.faster = "gRPC"
    /\ summary.Conclusion.x100 = 500

C15_Witness ==
  /\ Returned
  /\ req.Iterations = 5
  /\ sampler["AccountGrpc"].sumOk = 52
  /\ sampler["AccountGrpc"].oks = 5
  /\ sampler["AccountJsonrpc"].sumOk = 250
  /\ results["AccountGrpc"].MinResponseTimeMs = 9
  /\ results["AccountJsonrpc"].MaxResponseTimeMs = 52

----------------------------------------------------------------------------
\* the statistics of the samples a sampler had when the context was cancelled
PartialStats(seen) ==
  IF seen.oks > 0
  THEN [ avg |-> seen.sumOk \div seen.oks, min |-> seen.minTime,
         max |-> seen.maxTime, n |-> seen.oks ]
  ELSE [ avg |-> 0, min |-> 0, max |-> 0, n |-> 0 ]

(* C16: if the caller's context is cancelled while samplers run and every
   Resource Client call under a cancelled context fails, every sampler still
   finishes and RunBenchmark returns, and each pair reports partial
   statistics: successfulRequests, min, max and avg are those of exactly the
   attempts that had succeeded before the cancellation. *)
C16_PartialAfterCancel ==
  /\ ctx.cancelled ~> (Returned /\ \A p \in Pairs : sampler[p].pc \in {"idle", "done"})
  /\ []((Returned /\ ctx.cancelled) =>
         \A p \in Pairs :
           LET want == PartialStats(ctx.seen[p]) IN
           /\ results[p].SuccessfulRequests = want.n
           /\ results[p].AvgResponseTimeMs = want.avg
           /\ results[p].MinResponseTimeMs = want.min
           /\ results[p].MaxResponseTimeMs = want.max)

C16_Witness ==
  /\ Returned
  /\ ctx.cancelled
  /\ \E p \in Pairs :
       /\ ctx.seen[p].pc = "call"
       /\ ctx.seen[p].oks = 1
       /\ sampler[p].errs > 0
       /\ results[p].SuccessfulRequests = 1

----------------------------------------------------------------------------
\* the targets of pair p that decode and that the mock answers successfully
MockedOk(p) ==
  { j \in 1..Len(Targets(req, p)) :
      /\ (Kind(p) = "block" \/ Targets(req, p)[j] = "wellformed")
      /\ req.Iterations > 0
      /\ \A o \in client[p][1][j] : o.ok }

(* C17: with a Resource Client whose success or failure is a deterministic
   function of the target, successfulRequests and failedRequests of every
   pair are determined by the request and that function alone, so two runs
   of the same request agree on them however the sampler goroutines
   interleave. *)
C17_CountsDeterministic ==
  Returned =>
    \A p \in Pairs :
      Launched(p) =>
        LET n == req.Iterations * Cardinality(MockedOk(p)) IN
        /\ results[p].SuccessfulRequests = n
        /\ results[p].FailedRequests = IF n > 0 THEN Attempts(p) - n ELSE 0

C17_Witness ==
  /\ Returned
  /\ req.Iterations = 2
  /\ \E p, q \in Pairs :
       /\ results[p].SuccessfulRequests = 2
       /\ results[p].FailedRequests = 2
       /\ results[q].SuccessfulRequests = 4
       /\ results[q].FailedRequests = 0

----------------------------------------------------------------------------
(* C18: StreamTransactions and StreamBlocks send synthetic updates with
   index 0, 1, 2, ... in increasing order, the i-th with slot 100000 + i
   (for blocks, parentSlot = slot - 1); the stream stops after the 10th
   update with no error, or at the first failed send with an Internal error
   and nothing sent after it: at most 10 updates are ever sent. *)
C18_State ==
  stream.method \in {"StreamTransactions", "StreamBlocks"} =>
    /\ Len(stream.sent) <= 10
    /\ Len(stream.sent) = stream.i
    /\ \A n \in 1..Len(stream.sent) :
         /\ stream.sent[n].Slot = 100000 + (n - 1)
         /\ stream.method = "StreamTransactions" => stream.sent[n].Signature = n - 1
         /\ stream.method = "StreamBlocks" =>
              /\ stream.sent[n].Blockhash = n - 1
              /\ stream.sent[n].ParentSlot = stream.sent[n].Slot - 1
    /\ stream.err \in {"none", "nil", "Internal"}
    /\ (stream.pc = "done") <=> (stream.err # "none")
    /\ stream.err = "nil" => Len(stream.sent) = 10
    /\ stream.err = "Internal" => Len(stream.sent) < 10

C18_SyntheticUpdates ==
  /\ []C18_State
  /\ [][stream.pc = "done" =>
          /\ stream'.pc = "done"
          /\ stream'.err = stream.err
          /\ stream'.sent = stream.sent]_vars

C18_Witness ==
  /\ stream.method = "StreamBlocks"
  /\ stream.pc = "done"
  /\ stream.err = "nil"
  /\ Len(stream.sent) = 10
  /\ stream.sent[10].Slot = 100009
  /\ stream.sent[1].ParentSlot = 99999

\* the request names a pubkey that does not decode
SomeMalformed == \E n \in 1..Len(stream.pubkeys) : stream.pubkeys[n] = "malformed"

(* C19: StreamAccountUpdates validates every requested pubkey before doing
   anything else: if any pubkey of the request is malformed the stream ends
   with InvalidArgument, having made no account lookup and sent no update,
   also for the well-formed pubkeys that precede it. *)
C19_ValidateFirst ==
  (stream.method = "StreamAccountUpdates" /\ SomeMalformed) =>
    /\ stream.lookups = 0
    /\ stream.nsent = 0
    /\ stream.pc \in {"validate", "done"}
    /\ stream.pc = "done" => stream.err = "InvalidArgument"

C19_Witness ==
  /\ stream.method = "StreamAccountUpdates"
  /\ stream.pubkeys = << "wellformed", "malformed" >>
  /\ stream.pc = "done"
  /\ stream.err = "InvalidArgument"
  /\ stream.v = 2

(* C20: in StreamAccountUpdates a failed account lookup skips only that one
   update and the stream goes on with the remaining pubkeys and rounds,
   whereas a failed send ends the stream at once with Internal; so with no
   send failure the stream runs all 10 rounds, the number of updates sent is
   the number of successful lookups among the 10 x |pubkeys| lookups, and
   the stream ends without error. *)
C20_State ==
  (stream.method = "StreamAccountUpdates" /\ ~SomeMalformed) =>
    /\ stream.nsent <= stream.found
    /\ stream.found <= stream.lookups
    /\ stream.lookups <= 10 * Len(stream.pubkeys)
    /\ stream.err \in {"none", "nil", "Internal"}
    /\ stream.err = "Internal" =>
         stream.pc = "done" /\ stream.found = stream.nsent + 1
    /\ stream.err = "nil" =>
         /\ stream.pc = "done"
         /\ stream.i = 10
         /\ stream.lookups = 10 * Len(stream.pubkeys)
         /\ stream.nsent = stream.found

\* a step in which a lookup fails
C20_LookupFails ==
  stream'.lookups = stream.lookups + 1 /\ stream'.found = stream.found

C20_SkipOnLookupError ==
  /\ []C20_State
  /\ [][C20_LookupFails =>
          /\ stream'.pc = "loop"
          /\ stream'.err = "none"
          /\ stream'.nsent = stream.nsent
          /\ <<stream'.i, stream'.j>> # <<stream.i, stream.j>>]_vars

C20_Witness ==
  /\ stream.method = "StreamAccountUpdates"
  /\ Len(stream.pubkeys) = 2
  /\ stream.pc = "done"
  /\ stream.err = "nil"
  /\ stream.lookups = 20
  /\ stream.found = 13
  /\ stream.nsent = 13

----------------------------------------------------------------------------
\* pair p took successful samples whose latencies sum to less than their
\* number
SubMillisecond(p) ==
  /\ results[p].SuccessfulRequests > 0
  /\ sampler[p].sumOk < sampler[p].oks

(* C21: a zero account average does not mean that no sample succeeded: when
   an account pair has successfulRequests > 0 and the sum of its successful
   latencies is smaller than their number, its avgMs is 0, and RunBenchmark
   leaves speedupRatio at 0 and the conclusion empty, also when both
   transports took successful samples. *)
C21_ZeroAverageWithSamples ==
  \A p \in {"AccountGrpc", "AccountJsonrpc"} :
    (Returned /\ SubMillisecond(p)) =>
      /\ results[p].AvgResponseTimeMs = 0
      /\ summary.GrpcVsJsonrpcSpeedup = [num |-> 0, den |-> 1]
      /\ summary.Conclusion.faster = ""

C21_Witness ==
  /\ Returned
  /\ SubMillisecond("AccountGrpc")
  /\ sampler["AccountGrpc"].sumOk = 1
  /\ results["AccountGrpc"].SuccessfulRequests = 2
  /\ results["AccountJsonrpc"].SuccessfulRequests > 0
  /\ results["AccountJsonrpc"].AvgResponseTimeMs > 0
  /\ summary.Conclusion.faster = ""

----------------------------------------------------------------------------
(* C22: RunBenchmark does not validate the iteration count: with
   iterations = 0 and non-empty target lists the applicable samplers are
   still launched and joined, but no Resource Client call is made, every
   ResourceBenchmark stays all-zero, speedupRatio is 0, the conclusion is
   empty, and a nil error is returned. *)
C22_ZeroIterations ==
  req.Iterations = 0 =>
    /\ \A p \in Pairs :
         /\ sampler[p].issued = << >>
         /\ sampler[p].pc # "call"
         /\ results[p] = ZeroBenchmark
         /\ aggPc # "launch" => (Launched(p) <=> Applicable(req, p))
         /\ (Returned /\ Applicable(req, p)) => sampler[p].pc = "done"
    /\ summary.GrpcVsJsonrpcSpeedup = [num |-> 0, den |-> 1]
    /\ summary.Conclusion.faster = ""
    /\ ret \in {"running", "nil"}

C22_Witness ==
  /\ req.Iterations = 0
  /\ Len(req.TestAccounts) > 0
  /\ Len(req.TestSignatures) > 0
  /\ Len(req.TestSlots) > 0
  /\ Returned
  /\ \A p \in Pairs : sampler[p].pc = "done"

----------------------------------------------------------------------------
(* C23: for each resource kind the gRPC sampler and the JSON-RPC sampler
   are equivalent as accumulators: given the same request and the same
   outcome of every attempt (parse failure, transport failure, or success
   with latency t) they issue the same Resource Client calls and leave
   identical ResourceBenchmark fields. *)
C23_SamplersEquivalent ==
  Returned =>
    \A p, q \in Pairs :
      (Kind(p) = Kind(q) /\ Launched(p) /\ Launched(q)) =>
        /\ sampler[p].issued = sampler[q].issued
        /\ results[p] = results[q]

C23_Witness ==
  /\ Returned
  /\ req.Iterations = 2
  /\ req.TestAccounts = << "wellformed", "malformed" >>
  /\ \A p \in {"AccountGrpc", "AccountJsonrpc"} :
       /\ sampler[p].parses = 2
       /\ sampler[p].errs = 1
       /\ Len(sampler[p].issued) = 2
       /\ results[p] = [ AvgResponseTimeMs  |-> 2,
                         MinResponseTimeMs  |-> 2,
                         MaxResponseTimeMs  |-> 2,
                         SuccessfulRequests |-> 1,
                         FailedRequests     |-> 3 ]

----------------------------------------------------------------------------
\* the client has printed the first updates of the stream, in the order
\* they were sent
PrintedInOrder ==
  /\ Len(stream.printed) <= stream.nsent
  /\ \A n \in 1..Len(stream.printed) : stream.printed[n] = Received(stream, n)

(* C24: the client's stream commands keep receiving until Recv returns an
   error and treat every such error as fatal, the normal end of the stream
   after the server's last (10th) update included: a stream command prints
   every update received, in order, and then always terminates through the
   fatal-error path, never by a normal return. *)
C24_State ==
  stream.cmd # "none" =>
    /\ stream.cpc # "returned"
    /\ PrintedInOrder
    /\ (stream.cpc = "fatal") <=> (stream.cerr # "none")
    /\ stream.cerr = "EOF" =>
         /\ stream.err = "nil"
         /\ Len(stream.printed) = stream.nsent
         /\ stream.method # "StreamAccountUpdates" => Len(stream.printed) = 10

C24_FatalOnEveryRecvError ==
  /\ []C24_State
  /\ [][stream.cpc = "fatal" => stream'.printed = stream.printed]_vars
  /\ <>(stream.cpc = "fatal")

C24_Witness ==
  /\ stream.cmd = "stream-transactions"
  /\ stream.cpc = "fatal"
  /\ stream.cerr = "EOF"
  /\ Len(stream.printed) = 10
  /\ stream.printed[10].Slot = 100009

====
